---- MODULE Spec2Model ----
(***************************************************************************)
(* A model of the AVL tree of src/avltree.py and src/node.py.              *)
(*                                                                         *)
(* The tree is a heap of AVLNode objects: `heap` maps the identity of each *)
(* live node to its fields (value, left, right, balance), and `head`,      *)
(* `to_be_deleted_value_node`, `inc` and `iterative` are the fields of the *)
(* AVLTree object.  The private methods are operators over a record `self` *)
(* of these fields, written assignment by assignment as in the source, so  *)
(* that a rotation is the same pointer surgery as in the code.             *)
(*                                                                         *)
(* A Python exception is the field `raised` of the record: every caller    *)
(* returns at once when a callee has raised.                               *)
(***************************************************************************)
EXTENDS Integers, Sequences, FiniteSets

\* Values are 1..MaxVal, compared with integer <.
MaxVal == 7

Values == 1..MaxVal

\* One identity more than there are values: a node that has been unlinked may
\* still be referenced by to_be_deleted_value_node while a new node is created.
NodeIds == 1..(MaxVal + 1)

\* Python's None: the absent child, the empty tree's head, the cleared marker.
None == 0

VARIABLES
  heap,                       \* identity of each node of the tree -> its fields
  head,                       \* AVLTree.head
  to_be_deleted_value_node,   \* AVLTree.to_be_deleted_value_node
  inc,                        \* AVLTree.inc
  iterative,                  \* the constructor's choice of insertion_method
  ret,                        \* the last public call and what it returned or raised
  members                     \* the caller's record of the values it has stored

vars == <<heap, head, to_be_deleted_value_node, inc, iterative, ret, members>>

\* AVLNode.__init__: a fresh node holding `value`.
AVLNode(value) == [value |-> value, left |-> None, right |-> None, balance |-> 0]

\* The identity of the next object created: one no live object has.
NewNode(self) ==
  CHOOSE n \in NodeIds :
    /\ n \notin DOMAIN self.heap
    /\ n # self.to_be_deleted_value_node
    /\ \A k \in NodeIds :
         (k \notin DOMAIN self.heap /\ k # self.to_be_deleted_value_node) => n <= k

\* The heap with one more object.
Allocate(h, n, value) ==
  [k \in DOMAIN h \cup {n} |-> IF k = n THEN AVLNode(value) ELSE h[k]]

less_than_func(x, y) == x < y

abs(x) == IF x < 0 THEN -x ELSE x

\* An exception leaves the method: the record keeps what was assigned so far.
Raise(self, what) == [self EXCEPT !.raised = what]

\* _adjust_pointers without its last case: the head is never repointed.
_adjust_pointers_no_head(self, parent_node, current_node, new_node) ==
  IF self.heap[parent_node].left = current_node
  THEN [self EXCEPT !.heap[parent_node].left = new_node]
  ELSE IF self.heap[parent_node].right = current_node
  THEN [self EXCEPT !.heap[parent_node].right = new_node]
  ELSE self

_adjust_pointers(self, parent_node, current_node, new_node) ==
  IF self.heap[parent_node].left = current_node
  THEN [self EXCEPT !.heap[parent_node].left = new_node]
  ELSE IF self.heap[parent_node].right = current_node
  THEN [self EXCEPT !.heap[parent_node].right = new_node]
  ELSE [self EXCEPT !.head = new_node]

\* A single rotation that sets both balances to 0 also for a delete whose
\* promoted node was balanced.
_singlerotation_as_insert(self, parent_node, current_node, delete) ==
  LET h == self.heap
      right_rotation == h[current_node].balance = -1
      new_top_node == IF right_rotation THEN h[current_node].left
                      ELSE h[current_node].right
  IN IF new_top_node = None THEN Raise(self, "AttributeError")
     ELSE
       LET h1 == IF right_rotation
                 THEN [h EXCEPT ![current_node].left = h[new_top_node].right,
                                ![new_top_node].right = current_node]
                 ELSE [h EXCEPT ![current_node].right = h[new_top_node].left,
                                ![new_top_node].left = current_node]
           h2 == [h1 EXCEPT ![current_node].balance = 0,
                            ![new_top_node].balance = 0]
       IN _adjust_pointers([self EXCEPT !.heap = h2],
                           parent_node, current_node, new_top_node)

_singlerotation(self, parent_node, current_node, delete) ==
  LET h == self.heap
      right_rotation == h[current_node].balance = -1
      new_top_node == IF right_rotation THEN h[current_node].left
                      ELSE h[current_node].right
  IN IF new_top_node = None THEN Raise(self, "AttributeError")
     ELSE
       LET h1 == IF right_rotation
                 THEN [h EXCEPT ![current_node].left = h[new_top_node].right,
                                ![new_top_node].right = current_node]
                 ELSE [h EXCEPT ![current_node].right = h[new_top_node].left,
                                ![new_top_node].left = current_node]
           special == delete /\ h1[new_top_node].balance = 0
           h2 == IF special
                 THEN [h1 EXCEPT ![new_top_node].balance = -h1[current_node].balance]
                 ELSE [h1 EXCEPT ![current_node].balance = 0,
                                 ![new_top_node].balance = 0]
       IN _adjust_pointers([self EXCEPT !.heap = h2,
                                        !.inc = IF special THEN 0 ELSE @],
                           parent_node, current_node, new_top_node)

\* A double rotation with the two subtrees of the promoted node handed to the
\* wrong sides.
_doublerotation_links_swapped(h, current_node, remain_node, new_top_node) ==
  IF h[current_node].balance = -1
  THEN [h EXCEPT ![remain_node].right = h[new_top_node].right,
                 ![new_top_node].left = remain_node,
                 ![current_node].left = h[new_top_node].left,
                 ![new_top_node].right = current_node]
  ELSE [h EXCEPT ![remain_node].left = h[new_top_node].left,
                 ![new_top_node].right = remain_node,
                 ![current_node].right = h[new_top_node].right,
                 ![new_top_node].left = current_node]

\* The four assignments of _doublerotation to the links, left-right or
\* right-left.
_doublerotation_links(h, current_node, remain_node, new_top_node) ==
  IF h[current_node].balance = -1
  THEN [h EXCEPT ![remain_node].right = h[new_top_node].left,
                 ![new_top_node].left = remain_node,
                 ![current_node].left = h[new_top_node].right,
                 ![new_top_node].right = current_node]
  ELSE [h EXCEPT ![remain_node].left = h[new_top_node].right,
                 ![new_top_node].right = remain_node,
                 ![current_node].right = h[new_top_node].left,
                 ![new_top_node].left = current_node]

\* A double rotation that leaves the promoted node's balance as it was.
_doublerotation_keeps_top_balance(self, parent_node, current_node) ==
  LET h == self.heap
      left_right == h[current_node].balance = -1
      remain_node == IF left_right THEN h[current_node].left
                     ELSE h[current_node].right
      new_top_node == IF remain_node = None THEN None
                      ELSE IF left_right THEN h[remain_node].right
                      ELSE h[remain_node].left
  IN IF new_top_node = None THEN Raise(self, "AttributeError")
     ELSE
       LET h1 == _doublerotation_links(h, current_node, remain_node, new_top_node)
           top == h1[new_top_node].balance
           cur == h1[current_node].balance
       IN IF top # cur /\ top # 0 /\ top # -cur
          THEN Raise([self EXCEPT !.heap = h1], "AVL invariance broken!!")
          ELSE
            LET h2 == IF top = cur
                      THEN [h1 EXCEPT ![current_node].balance = -cur,
                                      ![remain_node].balance = 0]
                      ELSE IF top = 0
                      THEN [h1 EXCEPT ![current_node].balance = 0,
                                      ![remain_node].balance = 0]
                      ELSE [h1 EXCEPT ![remain_node].balance = cur,
                                      ![current_node].balance = 0]
            IN _adjust_pointers([self EXCEPT !.heap = h2],
                                parent_node, current_node, new_top_node)

_doublerotation(self, parent_node, current_node) ==
  LET h == self.heap
      left_right == h[current_node].balance = -1
      remain_node == IF left_right THEN h[current_node].left
                     ELSE h[current_node].right
      new_top_node == IF remain_node = None THEN None
                      ELSE IF left_right THEN h[remain_node].right
                      ELSE h[remain_node].left
  IN IF new_top_node = None THEN Raise(self, "AttributeError")
     ELSE
       LET h1 == _doublerotation_links(h, current_node, remain_node, new_top_node)
           top == h1[new_top_node].balance
           cur == h1[current_node].balance
       IN IF top # cur /\ top # 0 /\ top # -cur
          THEN Raise([self EXCEPT !.heap = h1], "AVL invariance broken!!")
          ELSE
            LET h2 == IF top = cur
                      THEN [h1 EXCEPT ![current_node].balance = -cur,
                                      ![remain_node].balance = 0]
                      ELSE IF top = 0
                      THEN [h1 EXCEPT ![current_node].balance = 0,
                                      ![remain_node].balance = 0]
                      ELSE [h1 EXCEPT ![remain_node].balance = cur,
                                      ![current_node].balance = 0]
                h3 == [h2 EXCEPT ![new_top_node].balance = 0]
            IN _adjust_pointers([self EXCEPT !.heap = h3],
                                parent_node, current_node, new_top_node)

\* The loop of _find_parent from `candidate` on.  Stepping onto a missing child
\* is Python's AttributeError; a candidate that is neither the parent nor
\* ordered against the child is tested again for ever.
RECURSIVE _find_parent_from(_, _, _)
_find_parent_from(self, child_node, candidate) ==
  IF candidate = None THEN [node |-> None, raised |-> "AttributeError"]
  ELSE IF child_node \in {self.heap[candidate].left, self.heap[candidate].right}
  THEN [node |-> candidate, raised |-> "none"]
  ELSE IF less_than_func(self.heap[child_node].value, self.heap[candidate].value)
  THEN _find_parent_from(self, child_node, self.heap[candidate].left)
  ELSE IF less_than_func(self.heap[candidate].value, self.heap[child_node].value)
  THEN _find_parent_from(self, child_node, self.heap[candidate].right)
  ELSE [node |-> candidate, raised |-> "diverges"]

\* A search for the parent that has no case for the head.
_find_parent_without_head_case(self, child_node) ==
  _find_parent_from(self, child_node, self.head)

_find_parent(self, child_node) ==
  IF child_node = self.head THEN [node |-> self.head, raised |-> "none"]
  ELSE _find_parent_from(self, child_node, self.head)

\* The first loop of _iterative_insert: the place of `value` is searched from
\* current_node and a leaf is attached there.  Yields the record and the two
\* local variables as the loop leaves them.
RECURSIVE _iterative_insert_place(_, _, _, _)
_iterative_insert_place(self, parent_node, current_node, value) ==
  LET cur == self.heap[current_node]
      leaf == NewNode(self)
  IN IF less_than_func(value, cur.value)
     THEN IF cur.left # None
          THEN _iterative_insert_place(self, current_node, cur.left, value)
          ELSE [self |-> [self EXCEPT
                            !.heap = [Allocate(self.heap, leaf, value)
                                        EXCEPT ![current_node].left = leaf],
                            !.inc = -1],
                parent_node |-> parent_node, current_node |-> current_node]
     ELSE IF less_than_func(cur.value, value)
     THEN IF cur.right # None
          THEN _iterative_insert_place(self, current_node, cur.right, value)
          ELSE [self |-> [self EXCEPT
                            !.heap = [Allocate(self.heap, leaf, value)
                                        EXCEPT ![current_node].right = leaf],
                            !.inc = 1],
                parent_node |-> parent_node, current_node |-> current_node]
     ELSE [self |-> [self EXCEPT !.inc = 0],
           parent_node |-> parent_node, current_node |-> current_node]

\* What follows a rotation in its caller: an exception goes on up, else inc is
\* set as the caller sets it.
_rotation_done(rotated, inc_after) ==
  IF rotated.raised # "none" THEN rotated
  ELSE [rotated EXCEPT !.inc = inc_after]

\* A choice that always takes the single rotation.
_insert_rotation_always_single(self, parent_node, current_node) ==
  _singlerotation(self, parent_node, current_node, FALSE)

\* A choice that rotates nothing.
_insert_rotation_none(self, parent_node, current_node) == self

\* The choice of insert between the two rotations: double when the child on
\* the heavy side leans the other way.
_insert_rotation(self, parent_node, current_node) ==
  LET cur == self.heap[current_node]
      heavy == IF self.inc = -1 THEN cur.left ELSE cur.right
  IN IF heavy = None THEN Raise(self, "AttributeError")
     ELSE IF self.heap[heavy].balance = -cur.balance
     THEN _doublerotation(self, parent_node, current_node)
     ELSE _singlerotation(self, parent_node, current_node, FALSE)

\* A pass that hands the delta up without the sign of the side it came from.
_iterative_insert_rebalance_unsigned(self, parent_node, current_node) ==
  LET cur == self.heap[current_node]
  IN IF cur.balance = 0
     THEN [self EXCEPT !.heap[current_node].balance = self.inc,
                       !.inc = abs(self.inc)]
     ELSE IF cur.balance = -self.inc
     THEN [self EXCEPT !.heap[current_node].balance = 0, !.inc = 0]
     ELSE IF cur.balance = self.inc
     THEN _rotation_done(_insert_rotation(self, parent_node, current_node), 0)
     ELSE self

\* One pass of the body of the second loop of _iterative_insert, up to the
\* test for the head: the balance of current_node absorbs inc, or a rotation
\* restores it.
_iterative_insert_rebalance(self, parent_node, current_node) ==
  LET cur == self.heap[current_node]
  IN IF cur.balance = 0
     THEN [self EXCEPT !.heap[current_node].balance = self.inc,
                       !.inc = IF current_node = self.heap[parent_node].left
                               THEN -abs(self.inc) ELSE abs(self.inc)]
     ELSE IF cur.balance = -self.inc
     THEN [self EXCEPT !.heap[current_node].balance = 0, !.inc = 0]
     ELSE IF cur.balance = self.inc
     THEN _rotation_done(_insert_rotation(self, parent_node, current_node), 0)
     ELSE self

\* The second loop of _iterative_insert: the walk back towards the head.
\* _iterative_insert_walk is the loop test, _iterative_insert_step the end of
\* the body (the break at the head, else one level up), _iterative_insert_up
\* the next pass once _find_parent has answered.
RECURSIVE _iterative_insert_walk(_, _, _)

_iterative_insert_up(self, up, parent_node) ==
  IF up.raised # "none" THEN Raise(self, up.raised)
  ELSE _iterative_insert_walk(self, up.node, parent_node)

_iterative_insert_step(self, parent_node, current_node) ==
  IF self.raised # "none" THEN self
  ELSE IF current_node = self.head THEN self
  ELSE _iterative_insert_up(self, _find_parent(self, parent_node), parent_node)

_iterative_insert_walk(self, parent_node, current_node) ==
  IF self.inc = 0 THEN self
  ELSE _iterative_insert_step(
         _iterative_insert_rebalance(self, parent_node, current_node),
         parent_node, current_node)

_iterative_insert_walk_from(placed) ==
  _iterative_insert_walk(placed.self, placed.parent_node, placed.current_node)

\* The calls of _find_parent that the second loop of _iterative_insert makes
\* from parent_node, current_node on: each with the object as it is then and
\* the node whose parent is searched.
RECURSIVE _iterative_insert_searches(_, _, _)

_iterative_insert_searches_up(self, up, parent_node) ==
  IF up.raised # "none" THEN <<>>
  ELSE _iterative_insert_searches(self, up.node, parent_node)

_iterative_insert_searches_step(self, parent_node, current_node) ==
  IF self.raised # "none" THEN <<>>
  ELSE IF current_node = self.head THEN <<>>
  ELSE <<[self |-> self, child_node |-> parent_node]>>
         \o _iterative_insert_searches_up(self, _find_parent(self, parent_node),
                                          parent_node)

_iterative_insert_searches(self, parent_node, current_node) ==
  IF self.inc = 0 THEN <<>>
  ELSE _iterative_insert_searches_step(
         _iterative_insert_rebalance(self, parent_node, current_node),
         parent_node, current_node)

_iterative_insert_searches_from(placed) ==
  _iterative_insert_searches(placed.self, placed.parent_node, placed.current_node)

\* The calls of _find_parent that insert(value) makes with the iterative
\* method on a tree that is not empty.
insert_searches(self, value) ==
  _iterative_insert_searches_from(
    _iterative_insert_place(self, self.head, self.head, value))

_iterative_insert(self, parent_node, current_node, value) ==
  _iterative_insert_walk_from(
    _iterative_insert_place(self, parent_node, current_node, value))

\* The rebalancing at the end of _recursive_insert.
_recursive_insert_rebalance(self, parent_node, current_node) ==
  LET cur == self.heap[current_node]
  IN IF self.raised # "none" \/ self.inc = 0 THEN self
     ELSE IF cur.balance = 0
     THEN [self EXCEPT !.heap[current_node].balance = self.inc]
     ELSE IF cur.balance = -self.inc
     THEN [self EXCEPT !.heap[current_node].balance = 0, !.inc = 0]
     ELSE IF cur.balance = self.inc
     THEN _rotation_done(_insert_rotation(self, parent_node, current_node), 0)
     ELSE self

\* A return that sets inc to the side descended into, whatever came back.
_recursive_insert_return_side(below, sign) ==
  IF below.raised # "none" THEN below
  ELSE [below EXCEPT !.inc = sign]

\* The return of a recursive call of _recursive_insert: inc takes the sign of
\* the side descended into.
_recursive_insert_return(below, sign) ==
  IF below.raised # "none" THEN below
  ELSE [below EXCEPT !.inc = sign * abs(below.inc)]

RECURSIVE _recursive_insert(_, _, _, _)
_recursive_insert(self, parent_node, current_node, value) ==
  LET cur == self.heap[current_node]
      leaf == NewNode(self)
  IN _recursive_insert_rebalance(
       IF less_than_func(value, cur.value)
       THEN IF cur.left # None
            THEN _recursive_insert_return(
                   _recursive_insert(self, current_node, cur.left, value), -1)
            ELSE [self EXCEPT !.heap = [Allocate(self.heap, leaf, value)
                                          EXCEPT ![current_node].left = leaf],
                              !.inc = -1]
       ELSE IF less_than_func(cur.value, value)
       THEN IF cur.right # None
            THEN _recursive_insert_return(
                   _recursive_insert(self, current_node, cur.right, value), 1)
            ELSE [self EXCEPT !.heap = [Allocate(self.heap, leaf, value)
                                          EXCEPT ![current_node].right = leaf],
                              !.inc = 1]
       ELSE [self EXCEPT !.inc = 0],
       parent_node, current_node)

insert(self, value) ==
  IF self.head = None
  THEN [self EXCEPT !.heap = Allocate(self.heap, NewNode(self), value),
                    !.head = NewNode(self)]
  ELSE IF self.iterative
  THEN _iterative_insert(self, self.head, self.head, value)
  ELSE _recursive_insert(self, self.head, self.head, value)

\* A rebalancing that ends the walk where the balance cancels to 0.
_recursive_delete_rebalance_stops(self, parent_node, current_node) ==
  LET cur == self.heap[current_node]
      heavy == IF self.inc = -1 THEN cur.left ELSE cur.right
  IN IF self.inc = 0 THEN self
     ELSE IF cur.balance = 0
     THEN [self EXCEPT !.heap[current_node].balance = self.inc, !.inc = 0]
     ELSE IF cur.balance = -self.inc
     THEN [self EXCEPT !.heap[current_node].balance = 0, !.inc = 0]
     ELSE IF cur.balance = self.inc
     THEN IF heavy = None THEN Raise(self, "AttributeError")
          ELSE IF self.heap[heavy].balance = -cur.balance
          THEN _rotation_done(_doublerotation(self, parent_node, current_node), -1)
          ELSE _singlerotation(self, parent_node, current_node, TRUE)
     ELSE self

\* The rebalancing at the end of _recursive_delete.
_recursive_delete_rebalance(self, parent_node, current_node) ==
  LET cur == self.heap[current_node]
      heavy == IF self.inc = -1 THEN cur.left ELSE cur.right
  IN IF self.inc = 0 THEN self
     ELSE IF cur.balance = 0
     THEN [self EXCEPT !.heap[current_node].balance = self.inc, !.inc = 0]
     ELSE IF cur.balance = -self.inc
     THEN [self EXCEPT !.heap[current_node].balance = 0, !.inc = -1]
     ELSE IF cur.balance = self.inc
     THEN IF heavy = None THEN Raise(self, "AttributeError")
          ELSE IF self.heap[heavy].balance = -cur.balance
          THEN _rotation_done(_doublerotation(self, parent_node, current_node), -1)
          ELSE _singlerotation(self, parent_node, current_node, TRUE)
     ELSE self

\* A splice that unlinks current_node and its subtree with it.
_recursive_delete_unlink_drops(self, parent_node, current_node, new_node) ==
  _adjust_pointers(
    [self EXCEPT !.inc = IF self.heap[parent_node].left = current_node THEN 1
                         ELSE IF self.heap[parent_node].right = current_node THEN -1
                         ELSE @],
    parent_node, current_node, None)

\* The splice of _recursive_delete: current_node leaves the tree, new_node
\* takes its place, and inc says which side of parent_node lost it.
_recursive_delete_unlink(self, parent_node, current_node, new_node) ==
  _adjust_pointers(
    [self EXCEPT !.inc = IF self.heap[parent_node].left = current_node THEN 1
                         ELSE IF self.heap[parent_node].right = current_node THEN -1
                         ELSE @],
    parent_node, current_node, new_node)

\* The return of a recursive call of _recursive_delete: inc takes the sign of
\* the side descended into, then current_node is rebalanced.
_recursive_delete_return(below, sign, parent_node, current_node) ==
  IF below.raised # "none" THEN below
  ELSE _recursive_delete_rebalance([below EXCEPT !.inc = sign * abs(below.inc)],
                                   parent_node, current_node)

\* A delete that looks for the replacement value in the right subtree of the
\* node that holds the value.
RECURSIVE _recursive_delete_into_right(_, _, _, _)
_recursive_delete_into_right(self, parent_node, current_node, value) ==
  LET cur == self.heap[current_node]
      marked == self.to_be_deleted_value_node
      found == [self EXCEPT !.to_be_deleted_value_node = current_node]
  IN IF marked # None
     THEN IF current_node = None THEN Raise(self, "AttributeError")
          ELSE IF cur.right # None
          THEN _recursive_delete_return(
                 _recursive_delete_into_right(self, current_node, cur.right, value),
                 -1, parent_node, current_node)
          ELSE _recursive_delete_unlink(
                 [self EXCEPT !.heap[marked].value = cur.value],
                 parent_node, current_node, cur.left)
     ELSE IF current_node # None
     THEN IF less_than_func(value, cur.value)
          THEN _recursive_delete_return(
                 _recursive_delete_into_right(self, current_node, cur.left, value),
                 1, parent_node, current_node)
          ELSE IF less_than_func(cur.value, value)
          THEN _recursive_delete_return(
                 _recursive_delete_into_right(self, current_node, cur.right, value),
                 -1, parent_node, current_node)
          ELSE IF cur.left = None
          THEN _recursive_delete_unlink(found, parent_node, current_node, cur.right)
          ELSE _recursive_delete_return(
                 _recursive_delete_into_right(found, current_node, cur.right, value),
                 -1, parent_node, current_node)
     ELSE Raise(self, "not found in tree!")

RECURSIVE _recursive_delete(_, _, _, _)
_recursive_delete(self, parent_node, current_node, value) ==
  LET cur == self.heap[current_node]
      marked == self.to_be_deleted_value_node
      found == [self EXCEPT !.to_be_deleted_value_node = current_node]
  IN IF marked # None
     THEN IF current_node = None THEN Raise(self, "AttributeError")
          ELSE IF cur.right # None
          THEN _recursive_delete_return(
                 _recursive_delete(self, current_node, cur.right, value),
                 -1, parent_node, current_node)
          ELSE _recursive_delete_unlink(
                 [self EXCEPT !.heap[marked].value = cur.value],
                 parent_node, current_node, cur.left)
     ELSE IF current_node # None
     THEN IF less_than_func(value, cur.value)
          THEN _recursive_delete_return(
                 _recursive_delete(self, current_node, cur.left, value),
                 1, parent_node, current_node)
          ELSE IF less_than_func(cur.value, value)
          THEN _recursive_delete_return(
                 _recursive_delete(self, current_node, cur.right, value),
                 -1, parent_node, current_node)
          ELSE IF cur.left = None
          THEN _recursive_delete_unlink(found, parent_node, current_node, cur.right)
          ELSE _recursive_delete_return(
                 _recursive_delete(found, current_node, cur.left, value),
                 1, parent_node, current_node)
     ELSE Raise(self, "not found in tree!")

\* The calls of _recursive_delete that one call makes, itself first, the
\* deepest last: each with the object and the arguments it is entered with.
RECURSIVE _recursive_delete_calls(_, _, _, _)
_recursive_delete_calls(self, parent_node, current_node, value) ==
  LET cur == self.heap[current_node]
      found == [self EXCEPT !.to_be_deleted_value_node = current_node]
      here == <<[self |-> self, parent_node |-> parent_node,
                 current_node |-> current_node]>>
  IN here \o
     IF self.to_be_deleted_value_node # None
     THEN IF current_node # None /\ cur.right # None
          THEN _recursive_delete_calls(self, current_node, cur.right, value)
          ELSE <<>>
     ELSE IF current_node # None
     THEN IF less_than_func(value, cur.value)
          THEN _recursive_delete_calls(self, current_node, cur.left, value)
          ELSE IF less_than_func(cur.value, value)
          THEN _recursive_delete_calls(self, current_node, cur.right, value)
          ELSE IF cur.left = None
          THEN <<>>
          ELSE _recursive_delete_calls(found, current_node, cur.left, value)
     ELSE <<>>

\* The calls of _recursive_delete that delete(value) makes on a tree that is
\* not empty.
delete_calls(self, value) ==
  _recursive_delete_calls([self EXCEPT !.to_be_deleted_value_node = None],
                          self.head, self.head, value)

\* A delete that starts its descent with the marker it finds.
delete_keeps_marker(self, value) ==
  IF self.head = None
  THEN Raise(self, "Trying to delete from an empty tree!")
  ELSE _recursive_delete(self, self.head, self.head, value)

\* A delete that returns from an empty tree without raising.
delete_silent_when_empty(self, value) ==
  IF self.head = None
  THEN self
  ELSE _recursive_delete([self EXCEPT !.to_be_deleted_value_node = None],
                         self.head, self.head, value)

delete(self, value) ==
  IF self.head = None
  THEN Raise(self, "Trying to delete from an empty tree!")
  ELSE _recursive_delete([self EXCEPT !.to_be_deleted_value_node = None],
                         self.head, self.head, value)

\* A search that turns the wrong way at every node.
RECURSIVE _recursive_find_mirrored(_, _, _)
_recursive_find_mirrored(self, current_node, value) ==
  IF current_node # None
  THEN IF less_than_func(value, self.heap[current_node].value)
       THEN _recursive_find_mirrored(self, self.heap[current_node].right, value)
       ELSE IF less_than_func(self.heap[current_node].value, value)
       THEN _recursive_find_mirrored(self, self.heap[current_node].left, value)
       ELSE <<TRUE, current_node>>
  ELSE <<FALSE, None>>

RECURSIVE _recursive_find(_, _, _)
_recursive_find(self, current_node, value) ==
  IF current_node # None
  THEN IF less_than_func(value, self.heap[current_node].value)
       THEN _recursive_find(self, self.heap[current_node].left, value)
       ELSE IF less_than_func(self.heap[current_node].value, value)
       THEN _recursive_find(self, self.heap[current_node].right, value)
       ELSE <<TRUE, current_node>>
  ELSE <<FALSE, None>>

find(self, value) ==
  IF self.head # None THEN _recursive_find(self, self.head, value)
  ELSE <<FALSE, None>>

RECURSIVE _inorder_rec(_, _)
_inorder_rec(self, node) ==
  IF node # None
  THEN _inorder_rec(self, self.heap[node].left) \o <<self.heap[node].value>>
         \o _inorder_rec(self, self.heap[node].right)
  ELSE <<>>

inorder(self) == _inorder_rec(self, self.head)

RECURSIVE _preorder_rec(_, _)
_preorder_rec(self, node) ==
  IF node # None
  THEN <<self.heap[node].value>> \o _preorder_rec(self, self.heap[node].left)
         \o _preorder_rec(self, self.heap[node].right)
  ELSE <<>>

preorder(self) == _preorder_rec(self, self.head)

RECURSIVE _postorder_rec(_, _)
_postorder_rec(self, node) ==
  IF node # None
  THEN _postorder_rec(self, self.heap[node].left)
         \o _postorder_rec(self, self.heap[node].right) \o <<self.heap[node].value>>
  ELSE <<>>

postorder(self) == _postorder_rec(self, self.head)

\* The nodes the tree owns, from `node` down, parent before children.
RECURSIVE Owned(_, _)
Owned(h, node) ==
  IF node = None THEN <<>>
  ELSE <<node>> \o Owned(h, h[node].left) \o Owned(h, h[node].right)

\* Object identity between two calls.  A node no longer owned by the tree is
\* reclaimed, and the program sees of an identity only whether two references
\* are the same object, so the live nodes are named 1..n in the order `live`
\* lists them; a marker left on an unlinked node stays a reference to no node
\* of the tree.
Rename(self, live) ==
  LET h == self.heap
      n == Len(live)
      name(node) == IF node = None THEN None
                    ELSE IF \E i \in 1..n : live[i] = node
                    THEN CHOOSE i \in 1..n : live[i] = node
                    ELSE n + 1
  IN [self EXCEPT
        !.heap = [i \in 1..n |-> [value |-> h[live[i]].value,
                                  left |-> name(h[live[i]].left),
                                  right |-> name(h[live[i]].right),
                                  balance |-> h[live[i]].balance]],
        !.head = name(self.head),
        !.to_be_deleted_value_node = name(self.to_be_deleted_value_node)]

Collect(self) == Rename(self, Owned(self.heap, self.head))

\* The AVLTree object as the methods see it at the start of a call.
Self ==
  [heap |-> heap, head |-> head,
   to_be_deleted_value_node |-> to_be_deleted_value_node,
   inc |-> inc, iterative |-> iterative, raised |-> "none"]

\* The fields of the AVLTree object become those of `kept`.
Assign(kept) ==
  /\ heap' = kept.heap
  /\ head' = kept.head
  /\ to_be_deleted_value_node' = kept.to_be_deleted_value_node
  /\ inc' = kept.inc
  /\ iterative' = kept.iterative

\* The call `op` leaves the object as `after`, by return or by exception.
Returns(op, after) ==
  /\ Assign(Collect(after))
  /\ ret' = [op |-> op, raised |-> after.raised, found |-> FALSE, node |-> None]

\* AVLTree.__init__, with either insertion method.
Init ==
  /\ heap = <<>>
  /\ head = None
  /\ to_be_deleted_value_node = None
  /\ inc = 0
  /\ iterative \in BOOLEAN
  /\ ret = [op |-> "new", raised |-> "none", found |-> FALSE, node |-> None]
  /\ members = {}

\* t.insert(value)
Insert(value) ==
  /\ Returns("insert", insert(Self, value))
  /\ members' = members \cup {value}

\* The caller forgets the value when delete has returned.
Forgets(after, value) ==
  /\ Returns("delete", after)
  /\ members' = IF after.raised = "none" THEN members \ {value} ELSE members

\* t.delete(value)
Delete(value) == Forgets(delete(Self, value), value)

\* The pair find returns.
Found(result) ==
  ret' = [op |-> "find", raised |-> "none", found |-> result[1], node |-> result[2]]

\* t.find(value)
Find(value) ==
  /\ Found(find(Self, value))
  /\ UNCHANGED <<heap, head, to_be_deleted_value_node, inc, iterative, members>>

Next ==
  \E value \in Values :
    \/ Insert(value)
    \/ Delete(value)
    \/ Find(value)

Spec == Init /\ [][Next]_vars

(***************************************************************************)
(* What the properties are stated with: the tree read off the heap without *)
(* the stored balances, and the reference results.                         *)
(***************************************************************************)

Max(a, b) == IF a >= b THEN a ELSE b

\* The nodes of the tree.
TreeNodes(self) ==
  {Owned(self.heap, self.head)[i] : i \in 1..Len(Owned(self.heap, self.head))}

\* The height of the subtree at `node`, recomputed from the links alone.
RECURSIVE Height(_, _)
Height(h, node) ==
  IF node = None THEN 0
  ELSE 1 + Max(Height(h, h[node].left), Height(h, h[node].right))

\* The values held in the subtree at `node`.
RECURSIVE SubtreeValues(_, _)
SubtreeValues(h, node) ==
  IF node = None THEN {}
  ELSE {h[node].value} \cup SubtreeValues(h, h[node].left)
         \cup SubtreeValues(h, h[node].right)

Stored(self) == SubtreeValues(self.heap, self.head)

\* The node of the tree that holds value v.
Holder(self, v) == CHOOSE n \in TreeNodes(self) : self.heap[n].value = v

\* The elements of a set of integers in increasing order.
RECURSIVE Sorted(_)
Sorted(S) ==
  IF S = {} THEN <<>>
  ELSE LET least == CHOOSE x \in S : \A y \in S : x <= y
       IN <<least>> \o Sorted(S \ {least})

\* A sequence without the occurrences of v.
Without(seq, v) == SelectSeq(seq, LAMBDA x : x # v)

TreeHeight == Height(heap, head)

TreeSize == Cardinality(TreeNodes(Self))

(***************************************************************************)
(* The properties.                                                         *)
(***************************************************************************)

\* C1: after every insert and every successful delete, in any sequence of
\* calls from the empty tree, the balance stored in every node is the height
\* of its right subtree minus the height of its left subtree, the heights
\* being recomputed from the links, and it is -1, 0 or 1.
BalanceIsHeightDifference ==
  \A n \in TreeNodes(Self) :
    /\ heap[n].balance = Height(heap, heap[n].right) - Height(heap, heap[n].left)
    /\ heap[n].balance \in {-1, 0, 1}

\* A delete has just returned and left a tree of height 3 with a node leaning
\* each way.
BalancedAfterDelete ==
  /\ ret.op = "delete" /\ ret.raised = "none"
  /\ TreeHeight = 3
  /\ \E n \in TreeNodes(Self) : heap[n].balance = 1
  /\ \E n \in TreeNodes(Self) : heap[n].balance = -1

\* C2: after any sequence of inserts and deletes the tree is a binary search
\* tree under less_than_func (the left subtree of a node holds smaller values,
\* the right subtree greater ones) and inorder() never steps down.
SearchTreeOrder ==
  /\ \A n \in TreeNodes(Self) :
       /\ \A x \in SubtreeValues(heap, heap[n].left) :
            less_than_func(x, heap[n].value)
       /\ \A x \in SubtreeValues(heap, heap[n].right) :
            less_than_func(heap[n].value, x)
  /\ \A i \in 1..(Len(inorder(Self)) - 1) :
       ~less_than_func(inorder(Self)[i + 1], inorder(Self)[i])

\* A delete has just copied a value into the node that held the deleted one
\* (the marker is still on that node, inside the tree) in a tree of height 3.
OrderedAfterValueCopy ==
  /\ ret.op = "delete" /\ ret.raised = "none"
  /\ to_be_deleted_value_node \in TreeNodes(Self)
  /\ TreeHeight = 3

\* What C3 asks of the object a delete(v) leaves.
DeletedExactly(after, v) ==
  /\ after.raised = "none"
  /\ find(after, v) = <<FALSE, None>>
  /\ inorder(after) = Without(inorder(Self), v)
  /\ Len(inorder(after)) = Len(inorder(Self)) - 1

\* C3: for any reachable tree and any stored value v, delete(v) returns, and
\* then find(v) is (False, None) and inorder() is the inorder() from before
\* the call with exactly v removed.
DeleteRemovesExactlyTheValue ==
  \A v \in Stored(Self) : DeletedExactly(delete(Self, v), v)

\* A delete has just returned, the unlinked node being the one that held the
\* value (the marker is on a node outside the tree), and five or more values
\* are left.
ValueDeletedFromLargeTree ==
  /\ ret.op = "delete" /\ ret.raised = "none"
  /\ to_be_deleted_value_node # None
  /\ to_be_deleted_value_node \notin TreeNodes(Self)
  /\ TreeSize >= 5
  /\ members = Stored(Self)

\* What C4 asks of the object an insert(v) of a new value leaves.
InsertedExactly(after, v) ==
  /\ after.raised = "none"
  /\ inorder(after) = Sorted(Stored(Self) \cup {v})
  /\ Cardinality(TreeNodes(after)) = TreeSize + 1

\* C4: inorder() is the sorted list of the values inserted (and not deleted
\* since); each insert of a value not yet present adds exactly one node, which
\* holds that value, and loses no value.
InsertAddsExactlyTheValue ==
  /\ inorder(Self) = Sorted(members)
  /\ \A v \in Values \ Stored(Self) : InsertedExactly(insert(Self, v), v)

\* Every value has been inserted and the last call was an insert.
AllValuesInserted ==
  /\ ret.op = "insert" /\ ret.raised = "none"
  /\ members = Values
  /\ TreeSize = MaxVal

\* What C5 asks of the object an insert of a stored value leaves.
SameTree(after) ==
  /\ after.raised = "none"
  /\ after.heap = heap
  /\ after.head = head
  /\ preorder(after) = preorder(Self)
  /\ inorder(after) = inorder(Self)
  /\ postorder(after) = postorder(Self)

\* C5: insert(v) of a value that compares equal to a stored one changes no
\* link, no value and no balance, so the three traversals stay the same; with
\* the iterative and with the recursive insertion method (the tree object is
\* constructed with either).
DuplicateInsertChangesNothing ==
  \A v \in Stored(Self) : SameTree(insert(Self, v))

\* A tree built with the recursive method, of height 3 with a node leaning
\* each way, on which the last call was an insert and a further insert of a
\* stored leaf value is made.
DuplicateInsertedRecursive ==
  /\ ret.op = "insert" /\ ~iterative
  /\ TreeHeight = 3
  /\ \E n \in TreeNodes(Self) : heap[n].balance = 1
  /\ \E n \in TreeNodes(Self) : heap[n].balance = -1
  /\ \E n \in TreeNodes(Self) :
       /\ heap[n].left = None /\ heap[n].right = None
       /\ SameTree(insert(Self, heap[n].value))

\* What C6 asks of the object a delete of an absent value leaves.
RaisedNotFound(after) ==
  /\ after.raised = IF head = None THEN "Trying to delete from an empty tree!"
                    ELSE "not found in tree!"
  /\ after.heap = heap
  /\ after.head = head

\* C6: delete(v) raises the not-found ValueError when the tree is empty or v is
\* not stored, and then head, every link, every value and every balance are
\* as before the call.
FailedDeleteChangesNothing ==
  \A v \in Values \ Stored(Self) : RaisedNotFound(delete(Self, v))

\* A delete has just raised not-found on a tree of three or more values.
DeleteRaisedOnPopulatedTree ==
  /\ ret.op = "delete" /\ ret.raised = "not found in tree!"
  /\ TreeSize >= 3

\* What find(v) must return: the node of the tree that holds v when v is among
\* the values inserted and not since deleted, (False, None) otherwise.
Answers(result, v) ==
  IF v \in members
  THEN /\ result[1] = TRUE
       /\ result[2] \in TreeNodes(Self)
       /\ heap[result[2]].value = v
  ELSE result = <<FALSE, None>>

FindAnswersMembership ==
  /\ \A v \in Values : Answers(find(Self, v), v)
  /\ ret.op = "find" =>
       IF ret.found
       THEN ret.node \in TreeNodes(Self) /\ heap[ret.node].value \in members
       ELSE ret.node = None /\ members # Values

\* C7: in every reachable tree find(v) returns (True, n), n the node of the
\* tree holding v, exactly when v has been inserted and not deleted since, and
\* (False, None) otherwise; a call of find changes neither the tree nor the
\* transient fields of the tree object.
FindIsExactAndPure ==
  /\ []FindAnswersMembership
  /\ [][ret'.op = "find" =>
          UNCHANGED <<heap, head, to_be_deleted_value_node, inc, iterative>>]_vars

\* find has just returned a node below the head.
FoundBelowHead ==
  /\ ret.op = "find" /\ ret.found
  /\ ret.node # head
  /\ heap[ret.node].left = None /\ heap[ret.node].right = None
  /\ TreeHeight = 3

(***************************************************************************)
(* The reference AVL insertion of C8, on shapes: the empty shape is <<>>,  *)
(* any other <<value, left shape, right shape>>.  It keeps no balance      *)
(* field: heights are recomputed wherever a decision needs them.           *)
(***************************************************************************)
RECURSIVE Shape(_, _)
Shape(h, node) ==
  IF node = None THEN <<>>
  ELSE <<h[node].value, Shape(h, h[node].left), Shape(h, h[node].right)>>

RECURSIVE ShapeHeight(_)
ShapeHeight(t) ==
  IF t = <<>> THEN 0 ELSE 1 + Max(ShapeHeight(t[2]), ShapeHeight(t[3]))

RECURSIVE ShapePreorder(_)
ShapePreorder(t) ==
  IF t = <<>> THEN <<>> ELSE <<t[1]>> \o ShapePreorder(t[2]) \o ShapePreorder(t[3])

Lean(t) == ShapeHeight(t[3]) - ShapeHeight(t[2])

RotateRight(t) == <<t[2][1], t[2][2], <<t[1], t[2][3], t[3]>> >>

RotateLeft(t) == <<t[3][1], <<t[1], t[2], t[3][2]>>, t[3][3]>>

\* The repair of a shape whose subtrees differ in height by two: a single
\* rotation when the heavy child leans the same way, a double one when it
\* leans the opposite way; any other shape is left in place.
Repair(t) ==
  IF Lean(t) = -2
  THEN IF Lean(t[2]) = 1
       THEN RotateRight(<<t[1], RotateLeft(t[2]), t[3]>>)
       ELSE RotateRight(t)
  ELSE IF Lean(t) = 2
  THEN IF Lean(t[3]) = -1
       THEN RotateLeft(<<t[1], t[2], RotateRight(t[3])>>)
       ELSE RotateLeft(t)
  ELSE t

RECURSIVE ReferenceInsert(_, _)
ReferenceInsert(t, v) ==
  IF t = <<>> THEN <<v, <<>>, <<>> >>
  ELSE IF v < t[1] THEN Repair(<<t[1], ReferenceInsert(t[2], v), t[3]>>)
  ELSE IF t[1] < v THEN Repair(<<t[1], t[2], ReferenceInsert(t[3], v)>>)
  ELSE t

\* A tree object as constructed, before any call.
NewTree(method) ==
  [heap |-> <<>>, head |-> None, to_be_deleted_value_node |-> None,
   inc |-> 0, iterative |-> method, raised |-> "none"]

InsertThree(method, a, b, c) ==
  preorder(insert(insert(insert(NewTree(method), a), b), c))

MatchesReference(after, v) ==
  /\ after.raised = "none"
  /\ Shape(after.heap, after.head) = ReferenceInsert(Shape(heap, head), v)
  /\ preorder(after) = ShapePreorder(ReferenceInsert(Shape(heap, head), v))

\* C8: an insert into any reachable tree leaves exactly the shape (and so the
\* preorder()) the reference AVL insertion leaves: the new leaf at its search
\* position, a single rotation at the lowest unbalanced ancestor when the
\* heavy child leans the same way, a double rotation when it leans the
\* opposite way, everything else in place; inserting 6,8,7 gives preorder
\* [7,6,8] and 6,4,5 gives [5,4,6], with either insertion method.
InsertMatchesReference ==
  /\ \A v \in Values : MatchesReference(insert(Self, v), v)
  /\ \A method \in BOOLEAN :
       /\ InsertThree(method, 6, 8, 7) = <<7, 6, 8>>
       /\ InsertThree(method, 6, 4, 5) = <<5, 4, 6>>

\* An insert has just left a tree of height 3 in which some further insert
\* makes the reference rotate twice below the head.
DoubleRotationBelowHead ==
  /\ ret.op = "insert" /\ ret.raised = "none"
  /\ TreeHeight = 3
  /\ \E v \in Values \ members :
       \E n \in TreeNodes(Self) \ {head} :
         /\ heap[n].balance = -1
         /\ heap[n].left # None /\ heap[n].right = None
         /\ heap[heap[n].left].value < v /\ v < heap[n].value
         /\ MatchesReference(insert(Self, v), v)

\* The least number of nodes of an AVL tree of height h.
RECURSIVE MinNodes(_)
MinNodes(h) ==
  IF h <= 0 THEN 0
  ELSE IF h = 1 THEN 1
  ELSE MinNodes(h - 1) + MinNodes(h - 2) + 1

\* C9: a tree of height h holds at least the minimum node count of an AVL
\* tree of height h (the Fibonacci bound, which is what keeps the height
\* within about 1.44*log2(N+2) for N stored values), and it holds exactly the
\* values inserted and not deleted.
HeightWithinFibonacciBound ==
  /\ TreeSize >= MinNodes(TreeHeight)
  /\ TreeSize = Cardinality(members)

\* An insert has just produced a tree that meets the bound exactly: height 4
\* on the 7 nodes an AVL tree of height 4 needs at least.
SparsestTreeOfHeightFour ==
  /\ ret.op = "insert" /\ ret.raised = "none"
  /\ TreeHeight = 4
  /\ TreeSize = MinNodes(4)

\* The greatest element of a non-empty set of integers.
Greatest(S) == CHOOSE x \in S : \A y \in S : y <= x

\* The least element of a non-empty set of integers.
Least(S) == CHOOSE x \in S : \A y \in S : x <= y

\* What delete(v) leaves when the node holding v had a left subtree: that node
\* holds `copied`, and the node that held `copied` has left the tree.
CopiedAndUnlinked(after, v, copied) ==
  /\ after.raised = "none"
  /\ after.to_be_deleted_value_node = Holder(Self, v)
  /\ after.heap[Holder(Self, v)].value = copied
  /\ TreeNodes(after) = TreeNodes(Self) \ {Holder(Self, copied)}
  /\ inorder(after) = Without(inorder(Self), v)

\* C10 (as amended): when delete(v) finds v in a node that has a left subtree,
\* the value copied into that node is v's in-order predecessor, the greatest
\* value of the node's left subtree (found by stepping into the left child
\* and then right as far as possible), and the node unlinked from the tree is
\* the one that held that predecessor.
DeleteCopiesPredecessor ==
  \A v \in Stored(Self) :
    heap[Holder(Self, v)].left # None =>
      CopiedAndUnlinked(delete(Self, v), v,
                        Greatest(SubtreeValues(heap, heap[Holder(Self, v)].left)))

\* C10 (as stated): when delete(v) finds v in a node that has a left subtree
\* (and a right subtree to descend into), the value copied into that node is
\* v's in-order successor, the least value of the node's right subtree, and
\* the node unlinked from the tree is the one that held that successor.
DeleteCopiesSuccessor ==
  \A v \in Stored(Self) :
    (heap[Holder(Self, v)].left # None /\ heap[Holder(Self, v)].right # None) =>
      CopiedAndUnlinked(delete(Self, v), v,
                        Least(SubtreeValues(heap, heap[Holder(Self, v)].right)))

\* A delete has just copied a value into a node that keeps both subtrees, in
\* a tree where a further delete has to walk right below the left child to
\* reach the predecessor.
PredecessorBelowLeftChild ==
  /\ ret.op = "delete" /\ ret.raised = "none"
  /\ to_be_deleted_value_node \in TreeNodes(Self)
  /\ heap[to_be_deleted_value_node].left # None
  /\ heap[to_be_deleted_value_node].right # None
  /\ \E n \in TreeNodes(Self) :
       /\ heap[n].left # None /\ heap[n].right # None
       /\ heap[heap[n].left].right # None
       /\ delete(Self, heap[n].value).heap[n].value
            = heap[heap[heap[n].left].right].value

(***************************************************************************)
(* The walk of delete back up the tree, one call of _recursive_delete at a *)
(* time.                                                                   *)
(***************************************************************************)
\* What a call of _recursive_delete returns with.
Returned(call, value) ==
  _recursive_delete(call.self, call.parent_node, call.current_node, value)

\* The node at the position of the call's current_node (the same link of its
\* parent_node, or head) in a later object.
AtPosition(call, later) ==
  IF call.self.heap[call.parent_node].left = call.current_node
  THEN later.heap[call.parent_node].left
  ELSE IF call.self.heap[call.parent_node].right = call.current_node
  THEN later.heap[call.parent_node].right
  ELSE later.head

\* By how much the subtree at the call's position is lower when it returns.
Lowered(call, after) ==
  Height(call.self.heap, call.current_node)
    - Height(after.heap, AtPosition(call, after))

DeltaTellsHeight(call, after) ==
  /\ after.raised = "none"
  /\ Lowered(call, after) \in {0, 1}
  /\ (after.inc # 0) <=> (Lowered(call, after) = 1)

\* The object as the inner call hands it back to the call around it, inc
\* signed by the side the outer call descended into.
HandedUp(outer, below, inner) ==
  [below EXCEPT !.inc =
     IF inner.current_node = outer.self.heap[outer.current_node].left
     THEN abs(below.inc) ELSE -abs(below.inc)]

\* The four outcomes of the rebalancing of current_node, told apart by the
\* node found at its position afterwards: itself (no rotation), its child
\* (single rotation), a grandchild (double rotation).
WalkStep(call, pre, post) ==
  LET node == call.current_node
      old == pre.heap[node].balance
      top == AtPosition(call, post)
  IN IF pre.inc = 0 THEN post = pre
     ELSE IF top = node
     THEN \/ old = 0 /\ post.heap[node].balance = pre.inc /\ post.inc = 0
          \/ old = -pre.inc /\ post.heap[node].balance = 0 /\ post.inc # 0
     ELSE IF top \in {pre.heap[node].left, pre.heap[node].right}
     THEN /\ (post.inc # 0) <=> (post.heap[top].balance = 0)
          /\ post.inc = 0 =>
               pre.heap[top].balance = 0 /\ post.heap[top].balance = -old
     ELSE post.inc # 0

DeleteWalk(calls, value) ==
  /\ \A i \in 1..Len(calls) :
       calls[i].current_node # head => DeltaTellsHeight(calls[i], Returned(calls[i], value))
  /\ \A i \in 1..(Len(calls) - 1) :
       WalkStep(calls[i],
                HandedUp(calls[i], Returned(calls[i + 1], value), calls[i + 1]),
                Returned(calls[i], value))

\* C11: in the walk of delete back up the tree, the delta a node passes to its
\* parent is nonzero exactly when the subtree at that position has become
\* lower by one; a balance of 0 takes the delta and ends the walk; a balance
\* opposite to the delta cancels to 0 and the walk goes on; a double rotation
\* always goes on; a single rotation goes on exactly when the balance of the
\* new subtree root is 0 afterwards, and otherwise the promoted node's balance
\* was 0 and becomes the negation of the old node's balance.
DeleteDeltaIsHeightLoss ==
  \A v \in Stored(Self) : DeleteWalk(delete_calls(Self, v), v)

\* A single rotation that ends the walk.
SingleRotationEnds(call, pre, post) ==
  /\ pre.inc # 0 /\ post.inc = 0
  /\ AtPosition(call, post) \in
       {pre.heap[call.current_node].left, pre.heap[call.current_node].right}

EndsAtSingleRotation(calls, value) ==
  \E i \in 1..(Len(calls) - 1) :
    SingleRotationEnds(calls[i],
                       HandedUp(calls[i], Returned(calls[i + 1], value), calls[i + 1]),
                       Returned(calls[i], value))

\* A delete has just been made, and in a further delete a node below the
\* head hands its delta up to a single rotation that ends the walk.
WalkEndsAtSingleRotation ==
  /\ ret.op = "delete" /\ ret.raised = "none"
  /\ \E v \in Stored(Self) : EndsAtSingleRotation(delete_calls(Self, v), v)

\* The ways a call may end: a return, or one of the two ValueErrors of delete.
Completions ==
  {"none", "not found in tree!", "Trying to delete from an empty tree!"}

\* The node a double rotation of `node` would promote: the inner child of the
\* child on the heavy side, None when there is none.
Promoted(h, node) ==
  IF h[node].balance = -1
  THEN IF h[node].left = None THEN None ELSE h[h[node].left].right
  ELSE IF h[node].right = None THEN None ELSE h[h[node].right].left

\* The test of _recursive_delete that chooses the double rotation.
ChoosesDouble(pre, node) ==
  /\ pre.inc # 0
  /\ pre.heap[node].balance = pre.inc
  /\ \/ pre.inc = -1 /\ pre.heap[node].left # None
        /\ pre.heap[pre.heap[node].left].balance = -pre.heap[node].balance
     \/ pre.inc = 1 /\ pre.heap[node].right # None
        /\ pre.heap[pre.heap[node].right].balance = -pre.heap[node].balance

PromotedFits(pre, node) ==
  ChoosesDouble(pre, node) =>
    /\ Promoted(pre.heap, node) # None
    /\ pre.heap[Promoted(pre.heap, node)].balance
         \in {pre.heap[node].balance, 0, -pre.heap[node].balance}

DoubleRotationsFit(calls, value) ==
  \A i \in 1..(Len(calls) - 1) :
    PromotedFits(HandedUp(calls[i], Returned(calls[i + 1], value), calls[i + 1]),
                 calls[i].current_node)

\* C12: through the public calls _doublerotation never reaches its fourth
\* branch: no insert and no delete on a reachable tree ends with "AVL
\* invariance broken!!" (or with a missing node), and whenever delete chooses
\* a double rotation the promoted node exists and its balance is equal to,
\* zero, or opposite to the balance of the rotated node.
InvarianceNeverBroken ==
  /\ ret.raised \in Completions
  /\ \A v \in Values :
       /\ insert(Self, v).raised = "none"
       /\ delete(Self, v).raised \in Completions
  /\ \A v \in Stored(Self) : DoubleRotationsFit(delete_calls(Self, v), v)

DoubleWithLeaningPromoted(calls, value) ==
  \E i \in 1..(Len(calls) - 1) :
    LET pre == HandedUp(calls[i], Returned(calls[i + 1], value), calls[i + 1])
        node == calls[i].current_node
    IN /\ ChoosesDouble(pre, node)
       /\ Promoted(pre.heap, node) # None
       /\ pre.heap[Promoted(pre.heap, node)].balance = -pre.heap[node].balance

\* A tree in which a delete chooses a double rotation whose promoted node
\* leans the opposite way from the rotated node.
DoubleRotationInDelete ==
  /\ ret.raised = "none"
  /\ \E v \in Stored(Self) : DoubleWithLeaningPromoted(delete_calls(Self, v), v)

\* The tree with its balance factors, free of node identities.
RECURSIVE Balanced(_, _)
Balanced(h, node) ==
  IF node = None THEN <<>>
  ELSE <<h[node].value, h[node].balance,
         Balanced(h, h[node].left), Balanced(h, h[node].right)>>

\* What a caller can observe of a call: how it ended, and the shape, values
\* and balance factors of the tree it left.
Outcome(after) == <<after.raised, Balanced(after.heap, after.head)>>

\* The tree object with other transient fields.
Leftover(delta, marker) ==
  [Self EXCEPT !.inc = delta, !.to_be_deleted_value_node = marker]

SameOutcomes(left, v, inserted, deleted) ==
  /\ Outcome(insert(left, v)) = inserted
  /\ Outcome(delete(left, v)) = deleted
  /\ head # None =>
       delete_calls(left, v)[1].self.to_be_deleted_value_node = None

LeftoverIgnored(v, inserted, deleted) ==
  \A delta \in {-1, 0, 1} :
    \A marker \in {None, to_be_deleted_value_node} :
      SameOutcomes(Leftover(delta, marker), v, inserted, deleted)

\* C13: the marker is cleared before the descent of each delete begins, and
\* the outcome of an insert or a delete (shape, values, balance factors, the
\* error raised) is the same for every inc in {-1, 0, 1} and for the marker
\* the preceding calls left as for a cleared one, on every reachable tree:
\* also after a delete that raised not-found or that removed the root.
TransientStateNeverLeaks ==
  \A v \in Values :
    LeftoverIgnored(v, Outcome(insert(Leftover(0, None), v)),
                       Outcome(delete(Leftover(0, None), v)))

\* A delete has just removed a node (the marker refers to a node no longer
\* in the tree) and left a delta behind, on a tree that still has three
\* values or more.
MarkerAndDeltaLeftBehind ==
  /\ ret.op = "delete" /\ ret.raised = "none"
  /\ to_be_deleted_value_node # None
  /\ to_be_deleted_value_node \notin TreeNodes(Self)
  /\ inc # 0
  /\ TreeSize >= 3

\* The answer to a search for the parent of child_node: head for the head,
\* else the node of the tree one of whose links is child_node.
IsParent(self, child_node, up) ==
  /\ up.raised = "none"
  /\ IF child_node = self.head THEN up.node = self.head
     ELSE /\ up.node \in TreeNodes(self)
          /\ child_node \in {self.heap[up.node].left, self.heap[up.node].right}

FindsParent(call) ==
  /\ call.child_node \in TreeNodes(call.self)
  /\ IsParent(call.self, call.child_node, _find_parent(call.self, call.child_node))

\* The upward walk of the iterative insert makes at most one search per level
\* of the tree, and each finds the parent.
WalkEnds(searches) ==
  /\ Len(searches) <= TreeHeight
  /\ \A i \in 1..Len(searches) : FindsParent(searches[i])

\* C14: every insert, delete and find on a reachable tree runs to completion
\* (it returns, or delete raises one of its ValueErrors); the upward walk of
\* the iterative insert ends, and each search of _find_parent from the root
\* finds the actual parent of the node (head for the head, also just after a
\* rotation has changed head) without looping for ever and without stepping
\* onto a missing child.
EveryCallCompletes ==
  /\ ret.raised \in Completions
  /\ \A v \in Values :
       /\ insert(Self, v).raised = "none"
       /\ delete(Self, v).raised
            = IF head = None THEN "Trying to delete from an empty tree!"
              ELSE IF v \in Stored(Self) THEN "none" ELSE "not found in tree!"
       /\ find(Self, v)[1] \in BOOLEAN
       /\ (iterative /\ head # None) => WalkEnds(insert_searches(Self, v))
  /\ \A n \in TreeNodes(Self) :
       IsParent(Self, n, _find_parent(Self, n))

SearchesAfterHeadChanged(searches) ==
  /\ Len(searches) >= 2
  /\ searches[Len(searches)].self.head # head
  /\ FindsParent(searches[Len(searches)])

\* A tree of height 3 built with the iterative method in which a further
\* insert walks up two levels, rotates at the head and then searches the
\* parent of the node that was the head.
WalkRotatesAtHead ==
  /\ iterative /\ ret.op = "insert"
  /\ TreeHeight = 3
  /\ \E v \in Values \ members : SearchesAfterHeadChanged(insert_searches(Self, v))

\* The tree object had it been constructed with the given insertion method.
Constructed(method) == [Self EXCEPT !.iterative = method]

SameResult(a, b) ==
  /\ a.raised = "none" /\ b.raised = "none"
  /\ Balanced(a.heap, a.head) = Balanced(b.heap, b.head)
  /\ preorder(a) = preorder(b)

\* C15: the iterative and the recursive insertion method are equivalent: on
\* every tree either of them can have built, an insert of any value (one
\* already stored included) leaves the same shape, values and balance factors
\* with iterative=True as with iterative=False; so two trees given the same
\* sequence of inserts are identical after each insert.
InsertionMethodsAgree ==
  \A v \in Values :
    SameResult(insert(Constructed(TRUE), v), insert(Constructed(FALSE), v))

BothRotateAtHead(a, b) ==
  /\ SameResult(a, b)
  /\ a.heap[a.head].value # heap[head].value
  /\ b.heap[b.head].value # heap[head].value

\* An insert has just been made into a tree that now has height 3, and a
\* further insert walks up to the head and rotates there, with either method.
MethodsRotateAlike ==
  /\ ret.op = "insert" /\ ret.raised = "none"
  /\ TreeHeight = 3
  /\ \E v \in Values \ members :
       BothRotateAtHead(insert(Constructed(TRUE), v), insert(Constructed(FALSE), v))

====
